---- MODULE Spec2Model ----
(***************************************************************************)
(* A model of the ingestion notebook rag-myData.ipynb: text extraction,    *)
(* markdown cleaning, the token gate, embedding, the staging directory     *)
(* ./data/chunks/ and the upload loop into the search index.               *)
(*                                                                         *)
(* A text is a sequence of one-character strings, so that the string       *)
(* functions of the notebook (strip, split, replace, re.sub, endswith,     *)
(* slicing) are computed character by character, as Python computes them.  *)
(***************************************************************************)
EXTENDS Integers, Sequences, FiniteSets, TLC

----------------------------------------------------------------------------
(* Python string primitives                                                *)

\* s[i:] of Python with i counted from 1: the suffix that starts at i.
From(s, i) == SubSeq(s, i, Len(s))

\* u repeated n times (Python's u * n).
Rep(u, n) == [i \in 1..(n * Len(u)) |-> u[((i - 1) % Len(u)) + 1]]

\* The least element of a non-empty set of integers.
Least(S) == CHOOSE i \in S : \A j \in S : i <= j

\* The greatest element of a non-empty set of integers.
Greatest(S) == CHOOSE i \in S : \A j \in S : j <= i

\* The places where pat occurs in s.
Occurrences(s, pat) ==
  { i \in 1..(Len(s) - Len(pat) + 1) : \A k \in 1..Len(pat) : s[i + k - 1] = pat[k] }

\* str.find, counted from 1: the first place where pat occurs in s, 0 if none.
Find(s, pat) ==
  LET occ == Occurrences(s, pat) IN IF occ = {} THEN 0 ELSE Least(occ)

\* str.replace(pat, ''): every leftmost, non-overlapping occurrence removed.
RECURSIVE Remove(_, _)
Remove(s, pat) ==
  LET i == Find(s, pat)
  IN  IF i = 0 THEN s
      ELSE SubSeq(s, 1, i - 1) \o Remove(From(s, i + Len(pat)), pat)

\* str.split(sep): the pieces between leftmost, non-overlapping separators.
RECURSIVE Split(_, _)
Split(s, sep) ==
  LET i == Find(s, sep)
  IN  IF i = 0 THEN <<s>>
      ELSE <<SubSeq(s, 1, i - 1)>> \o Split(From(s, i + Len(sep)), sep)

\* str.endswith(suffix).
EndsWith(s, suffix) ==
  /\ Len(suffix) <= Len(s)
  /\ From(s, Len(s) - Len(suffix) + 1) = suffix

\* The characters str.strip() and str.split() treat as whitespace.
Whitespace == {" ", "\n", "\t", "\r", "\f"}

\* str.strip(): leading and trailing whitespace removed.
Strip(s) ==
  LET ink == { i \in 1..Len(s) : s[i] \notin Whitespace }
  IN  IF ink = {} THEN <<>> ELSE SubSeq(s, Least(ink), Greatest(ink))

\* len(s.split()): the number of maximal runs of non-whitespace characters.
WordCount(s) ==
  Cardinality({ i \in 1..Len(s) :
                  /\ s[i] \notin Whitespace
                  /\ (i = 1 \/ s[i - 1] \in Whitespace) })

----------------------------------------------------------------------------
(* clean_markdown_content                                                  *)

\* A match of  \[ G1 \] \( G2 \)  whose "[" is at b, G1 = [^\[] repeated at
\* least min1 times and G2 = [^\)]+ : the places j of "]" that admit a match.
\* G2 runs to the first ")" after it, so it matches iff the character after
\* "(" is not ")" and some ")" follows.
BracketCloses(s, b, min1) ==
  { j \in (b + 1 + min1)..(Len(s) - 3) :
      /\ s[j] = "]"
      /\ s[j + 1] = "("
      /\ \A x \in (b + 1)..(j - 1) : s[x] # "["
      /\ s[j + 2] # ")"
      /\ \E k \in (j + 3)..Len(s) : s[k] = ")" }

\* The match the regex engine takes at b: G1 is greedy, so the last "]" that
\* admits a match; <<j, k>> are the places of that "]" and of the closing ")".
BracketMatch(s, b, min1) ==
  LET j == Greatest(BracketCloses(s, b, min1))
  IN  <<j, Least({ k \in (j + 3)..Len(s) : s[k] = ")" })>>

\* link_pattern = r'\[([^\[]+)\]\(([^\)]+)\)': the places where it matches.
LinkStarts(s) ==
  { b \in 1..Len(s) : s[b] = "[" /\ BracketCloses(s, b, 1) # {} }

\* re.sub(link_pattern, r'\1', content): scanning from the left, each match is
\* replaced by its group 1 and the scan resumes after the match.
RECURSIVE SubLinks(_)
SubLinks(s) ==
  IF LinkStarts(s) = {} THEN s
  ELSE LET b == Least(LinkStarts(s))
           m == BracketMatch(s, b, 1)
       IN  SubSeq(s, 1, b - 1) \o SubSeq(s, b + 1, m[1] - 1) \o SubLinks(From(s, m[2] + 1))

\* image_pattern = r'\!\[([^\[]*)\]\(([^\)]+)\)': the places where it matches.
ImageStarts(s) ==
  { b \in 1..(Len(s) - 1) :
      s[b] = "!" /\ s[b + 1] = "[" /\ BracketCloses(s, b + 1, 0) # {} }

\* re.sub(image_pattern, '', content).
RECURSIVE SubImages(_)
SubImages(s) ==
  IF ImageStarts(s) = {} THEN s
  ELSE LET b == Least(ImageStarts(s))
           m == BracketMatch(s, b + 1, 0)
       IN  SubSeq(s, 1, b - 1) \o SubImages(From(s, m[2] + 1))

\* clean_markdown_content(content): links, then images, then '**', then '\n'.
clean_markdown_content(content) ==
  Remove(Remove(SubImages(SubLinks(content)), <<"*", "*">>), <<"\n">>)

----------------------------------------------------------------------------
(* Token counting                                                          *)

\* The ceiling of the embedding model, as written in the chunking loop.
MAX_INPUT_TOKENS == 8191

Letters == {"a", "b", "c", "d", "u", "w"}
Digits == {"0", "1", "2", "3", "4", "5", "6", "7", "8", "9"}

\* The first definition of num_tokens_from_string: len(encoding.encode(s))
\* under cl100k_base. The byte-pair merges are tiktoken's; what is computed
\* here is the number of pieces cl100k_base's splitting pattern cuts s into
\* before any merge, counting only the maximal runs of letters (\p{L}+) and
\* the maximal runs of digits (\p{N}{1,3}, at least one piece per run): a
\* letter and a digit never share a piece. No token spans two pieces, so
\* encode(s) has at least this many tokens: a value above the ceiling means
\* the true count is above it too.
num_tokens_cl100k_base(s) ==
  LET starts(class) == { i \in 1..Len(s) :
                           s[i] \in class /\ (i = 1 \/ s[i - 1] \notin class) }
  IN  Cardinality(starts(Letters)) + Cardinality(starts(Digits))

\* The second definition of num_tokens_from_string, in the cell that counts
\* the tokens of the sample files: len(content.split()). The cells run in
\* order, so this is the definition bound when the chunking loop runs.
num_tokens_from_string(content) == WordCount(content)

----------------------------------------------------------------------------
(* The files of ./data/myDocuments/                                        *)

\* The most files the input directory holds.
MaxDocs == 2
\* The most cells run, one after the other.
MaxRuns == 3
\* The most calls the Embedding Service and the Index Store fail.
MaxFaults == 1
\* The number of words of the section that is over the ceiling, and the
\* number of digit-letter pairs of the section that has no whitespace.
OverflowWords == 8192
DensePairs == 4096

\* What the format-specific readers (PdfReader, docx, csv, pandas) return is
\* theirs; a file is its name, whether os.path.exists holds of its path (a
\* dangling link is listed and does not exist), and the text `content` that
\* extract_text_from_file has built from it just before its return statement.
Files ==
  { [name |-> <<"a", ".", "p", "d", "f">>, exists |-> TRUE,
     content |-> <<" ", "b", ".", "\n", "[", "a", "]", "(", "u", ")", " ", "c">>],
    [name |-> <<"n", ".", "t", "x", "t">>, exists |-> TRUE,
     content |-> <<"a">>],
    [name |-> <<"b", "?", ".", "p", "d", "f">>, exists |-> TRUE,
     content |-> <<"a", "\n", "\n">> \o Rep(<<"w", " ">>, OverflowWords)
                   \o <<"\n", "\n", "\n", "b">>],
    [name |-> <<"e", ".", "c", "s", "v">>, exists |-> TRUE,
     content |-> <<>>],
    [name |-> <<"b", ".", "x", "l", "s", "x">>, exists |-> TRUE,
     content |-> Rep(<<"1", "a">>, DensePairs) \o <<"\n", "\n">>],
    [name |-> <<"g", ".", "d", "o", "c", "x">>, exists |-> FALSE,
     content |-> <<>>] }

FileNames == { f.name : f \in Files }

FileNamed(filename) == CHOOSE f \in Files : f.name = filename

\* The listings os.listdir(input_directory) can return: the files of the
\* directory in any order.
Listings ==
  { d \in UNION { [1..n -> FileNames] : n \in 0..MaxDocs } :
      \A i, j \in DOMAIN d : i # j => d[i] # d[j] }

----------------------------------------------------------------------------
(* extract_text_from_file and the helpers of the chunking loop             *)

suported_file_types ==
  { <<".", "p", "d", "f">>, <<".", "d", "o", "c", "x">>,
    <<".", "c", "s", "v">>, <<".", "x", "l", "s", "x">> }

\* The filter left out: every listed file is handed to the extractor.
SupportedAny(filename) == TRUE

\* str(filename).endswith(suported_file_types)
Supported(filename) == \E t \in suported_file_types : EndsWith(filename, t)

\* os.path.splitext(filename)[0]: the name up to its last dot, unless only
\* dots precede that dot.
page_title_of(filename) ==
  LET dots == { i \in 1..Len(filename) : filename[i] = "." }
  IN  IF dots = {} THEN filename
      ELSE IF \E i \in 1..(Greatest(dots) - 1) : filename[i] # "."
           THEN SubSeq(filename, 1, Greatest(dots) - 1)
           ELSE filename

\* The if/elif chain of extract_text_from_file: some branch reads the file.
Readable(file_path) ==
  \/ EndsWith(file_path, <<".", "p", "d", "f">>)
  \/ EndsWith(file_path, <<".", "d", "o", "c", "x">>)
  \/ EndsWith(file_path, <<".", "c", "s", "v">>)
  \/ EndsWith(file_path, <<".", "x", "l", "s", "x">>)

\* extract_text_from_file(input_directory + filename): what it raises, or
\* what it returns: None, or content.split('\n\n').
extract_text_from_file(filename) ==
  LET f == FileNamed(filename)
  IN  IF ~f.exists
      THEN [raises |-> "FileNotFoundError", none |-> FALSE, paragraphs |-> <<>>]
      ELSE IF ~Readable(filename)
      THEN [raises |-> "ValueError", none |-> FALSE, paragraphs |-> <<>>]
      ELSE IF f.content = <<>>
      THEN [raises |-> "", none |-> TRUE, paragraphs |-> <<>>]
      ELSE [raises |-> "", none |-> FALSE,
            paragraphs |-> Split(f.content, <<"\n", "\n">>)]

\* The same without strip(): clean_markdown_content(chunk).
chunk_content_unstripped(chunk) == clean_markdown_content(chunk)

\* chunk_content = clean_markdown_content(chunk.strip())
chunk_content_of(chunk) == clean_markdown_content(Strip(chunk))

\* The gate left out: no chunk is ever over the ceiling.
OverCeilingNever(chunk_content) == FALSE

\* The gate of the chunking loop: num_tokens_from_string(chunk_content) > 8191
OverCeiling(chunk_content) ==
  num_tokens_from_string(chunk_content) > MAX_INPUT_TOKENS

\* The longest title kept whole.
TITLE_LIMIT == 200

\* chunk_title = chunk_content.split('.\n')[0].strip(), cut to 200 characters
\* and '...' when longer.
chunk_title_of(chunk_content) ==
  LET title == Strip(Split(chunk_content, <<".", "\n">>)[1])
  IN  IF Len(title) > TITLE_LIMIT
      THEN SubSeq(title, 1, TITLE_LIMIT) \o <<".", ".", ".">>
      ELSE title

\* The decimal digits of n, as an f-string formats an int.
RECURSIVE Decimal(_)
Decimal(n) ==
  LET digit == <<"0", "1", "2", "3", "4", "5", "6", "7", "8", "9">>[(n % 10) + 1]
  IN  IF n < 10 THEN <<digit>> ELSE Decimal(n \div 10) \o <<digit>>

\* The name without the counter: f'chunk_{page_title}.json', sanitized alike.
chunk_file_name_without_index(index, page_title) ==
  SelectSeq(<<"c", "h", "u", "n", "k", "_">> \o page_title
              \o <<".", "j", "s", "o", "n">>,
            LAMBDA c : c \notin {"?", ":", "'", "|", "/", "\\"})

\* f'chunk_{chunk_index}_{page_title}.json' with ? : ' | / \ replaced by ''.
chunk_file_name_of(index, page_title) ==
  SelectSeq(<<"c", "h", "u", "n", "k", "_">> \o Decimal(index) \o <<"_">>
              \o page_title \o <<".", "j", "s", "o", "n">>,
            LAMBDA c : c \notin {"?", ":", "'", "|", "/", "\\"})

\* The dictionary with an id derived from what the chunk is, not drawn anew.
chunk_data_with_derived_id(id, page_title, chunk_title, content, vector) ==
  [id |-> <<page_title, content>>, page_title |-> page_title,
   chunk_title |-> chunk_title, chunk_content |-> content, vector |-> vector]

\* The dictionary chunk_data that json.dump writes.
chunk_data_of(id, page_title, chunk_title, content, vector) ==
  [id |-> id, page_title |-> page_title, chunk_title |-> chunk_title,
   chunk_content |-> content, vector |-> vector]

\* filename.endswith('.json') in the upload loop.
IsJson(name) == EndsWith(name, <<".", "j", "s", "o", "n">>)

\* An upload that adds the document without looking for its key.
add_documents(index, document) ==
  [e \in DOMAIN index \cup {document} |->
     IF e # document THEN index[e]
     ELSE IF e \in DOMAIN index THEN index[e] + 1 ELSE 1]

\* search_client.upload_documents(documents=document) on an index whose key
\* field is "id": the entry with that key is replaced, or the document added.
\* The index is the bag of its entries (entry -> number of copies).
upload_documents(index, document) ==
  LET others == { e \in DOMAIN index : e.id # document.id }
  IN  [e \in others \cup {document} |->
         IF e = document THEN 1 ELSE index[e]]

----------------------------------------------------------------------------
(* What the chunking loop computes from each file. These depend on the     *)
(* files alone, so each is computed once, for every file and paragraph.    *)

\* extracted_paragraphs = extract_text_from_file(input_directory + filename)
Extracted == [name \in FileNames |-> extract_text_from_file(name)]

\* For each paragraph of each file: chunk_content, the verdict of the gate
\* and the chunk_title the loop derives.
Candidate ==
  [name \in FileNames |->
     [i \in DOMAIN Extracted[name].paragraphs |->
        LET content == chunk_content_of(Extracted[name].paragraphs[i])
        IN  [chunk_content |-> content,
             over |-> OverCeiling(content),
             chunk_title |-> chunk_title_of(content)]]]

\* Every chunk_content the loop can compute, and its count under each of the
\* two definitions of num_tokens_from_string.
Contents ==
  UNION { { Candidate[name][i].chunk_content : i \in DOMAIN Candidate[name] } :
          name \in FileNames }

Tokens == [content \in Contents |-> num_tokens_from_string(content)]

TokensCl100k == [content \in Contents |-> num_tokens_cl100k_base(content)]

----------------------------------------------------------------------------
(* State                                                                   *)

VARIABLES
  input_directory,    \* os.listdir('./data/myDocuments/'): file names in order
  output_directory,   \* ./data/chunks/: file name -> the chunk_data written
  index,              \* the search index: entry -> number of copies
  pc,                 \* "idle", or the loop the running cell is in
  runs,               \* the cells run so far, each with its outcome
  file_pos,           \* position of `for filename in os.listdir(...)`
  chunk_pos,          \* position of `for chunk in extracted_paragraphs`
  chunk_index,        \* the counter chunk_index
  printed,            \* the output of the chunking cell's current run
  requests,           \* the texts sent to the Embedding Service so far
  embedding_calls,    \* the number of calls of get_embeddings_vector so far
  accepted,           \* the number of candidates that passed the gate so far
  uuids,              \* the number of uuid4() identifiers drawn so far
  faults,             \* the number of service calls that failed so far
  pending,            \* the staged files the upload loop has yet to visit
  text,               \* a text handed to clean_markdown_content on its own
  cleaned,            \* clean_markdown_content(text)
  recleaned,          \* clean_markdown_content(cleaned)
  stage               \* "raw", "cleaned", "recleaned"; "off" in the notebook run

vars ==
  <<input_directory, output_directory, index, pc, runs, file_pos, chunk_pos,
    chunk_index, printed, requests, embedding_calls, accepted, uuids, faults,
    pending, text, cleaned, recleaned, stage>>

Init ==
  /\ input_directory \in Listings
  /\ output_directory = <<>>
  /\ index = <<>>
  /\ pc = "idle"
  /\ runs = <<>>
  /\ file_pos = 0
  /\ chunk_pos = 0
  /\ chunk_index = 0
  /\ printed = <<>>
  /\ requests = {}
  /\ embedding_calls = 0
  /\ accepted = 0
  /\ uuids = 0
  /\ faults = 0
  /\ pending = {}
  /\ text = <<>>
  /\ cleaned = <<>>
  /\ recleaned = <<>>
  /\ stage = "off"

\* The running cell ends: normally ("done") or by the exception it raised.
Ended(outcome) == [runs EXCEPT ![Len(runs)].outcome = outcome]

filename == input_directory[file_pos]
extracted_paragraphs == Extracted[filename].paragraphs
candidate == Candidate[filename][chunk_pos]
chunk_content == candidate.chunk_content

\* The for loop over the paragraphs moves on: to the next paragraph, or past
\* the last one to the next file.
NextChunk ==
  IF chunk_pos < Len(extracted_paragraphs)
  THEN /\ chunk_pos' = chunk_pos + 1
       /\ UNCHANGED <<pc, file_pos>>
  ELSE /\ chunk_pos' = 0
       /\ file_pos' = file_pos + 1
       /\ pc' = "files"

\* `continue` in the place of `break`: the loop goes on with the next
\* paragraph of the same file.
Continue == NextChunk

\* `break` in the inner loop: the rest of the file's paragraphs is left and
\* the outer loop takes the next file.
Break ==
  /\ chunk_pos' = 0
  /\ file_pos' = file_pos + 1
  /\ pc' = "files"

----------------------------------------------------------------------------
(* The cell "Create file chunks"                                           *)

\* The cell starts: chunk_index = 0, and the loop over the listing begins.
BeginChunking ==
  /\ pc = "idle"
  /\ pc' = "files"
  /\ runs' = Append(runs, [cell |-> "chunks", outcome |-> "running"])
  /\ file_pos' = 1
  /\ chunk_pos' = 0
  /\ chunk_index' = 0
  /\ printed' = <<>>
  /\ UNCHANGED <<text, cleaned, recleaned, stage, faults, input_directory, output_directory, index, requests,
                 embedding_calls, accepted, uuids, pending>>

\* The cell is run, in any order with the upload cell.
StartChunking == Len(runs) < MaxRuns /\ BeginChunking

\* A file whose name does not end in a supported type: the if has no else.
SkipFile ==
  /\ pc = "files"
  /\ file_pos <= Len(input_directory)
  /\ ~Supported(filename)
  /\ file_pos' = file_pos + 1
  /\ UNCHANGED <<text, cleaned, recleaned, stage, faults, input_directory, output_directory, index, pc, runs, chunk_pos,
                 chunk_index, printed, requests, embedding_calls, accepted,
                 uuids, pending>>

\* extract_text_from_file raises: nothing catches it, the cell ends.
ExtractRaises ==
  /\ pc = "files"
  /\ file_pos <= Len(input_directory)
  /\ Supported(filename)
  /\ Extracted[filename].raises # ""
  /\ pc' = "idle"
  /\ runs' = Ended(Extracted[filename].raises)
  /\ UNCHANGED <<text, cleaned, recleaned, stage, faults, input_directory, output_directory, index, file_pos, chunk_pos,
                 chunk_index, printed, requests, embedding_calls, accepted,
                 uuids, pending>>

\* extract_text_from_file returns None: `for chunk in None` raises TypeError.
IterateNone ==
  /\ pc = "files"
  /\ file_pos <= Len(input_directory)
  /\ Supported(filename)
  /\ Extracted[filename].raises = ""
  /\ Extracted[filename].none
  /\ pc' = "idle"
  /\ runs' = Ended("TypeError")
  /\ UNCHANGED <<text, cleaned, recleaned, stage, faults, input_directory, output_directory, index, file_pos, chunk_pos,
                 chunk_index, printed, requests, embedding_calls, accepted,
                 uuids, pending>>

\* The same with the counter restarted for each file: chunk_index = 0 inside
\* the loop over the files.
OpenFileResettingCounter ==
  /\ pc = "files"
  /\ file_pos <= Len(input_directory)
  /\ Supported(filename)
  /\ Extracted[filename].raises = ""
  /\ ~Extracted[filename].none
  /\ pc' = "chunks"
  /\ chunk_pos' = 1
  /\ chunk_index' = 0
  /\ UNCHANGED <<text, cleaned, recleaned, stage, faults, input_directory,
                 output_directory, index, runs, file_pos, printed, requests,
                 embedding_calls, accepted, uuids, pending>>

\* extract_text_from_file returns the paragraphs: the inner loop begins.
OpenFile ==
  /\ pc = "files"
  /\ file_pos <= Len(input_directory)
  /\ Supported(filename)
  /\ Extracted[filename].raises = ""
  /\ ~Extracted[filename].none
  /\ pc' = "chunks"
  /\ chunk_pos' = 1
  /\ UNCHANGED <<text, cleaned, recleaned, stage, faults, input_directory, output_directory, index, runs, file_pos,
                 chunk_index, printed, requests, embedding_calls, accepted,
                 uuids, pending>>

\* One pass of the inner loop on a chunk over the ceiling: print and break.
Overflow ==
  /\ pc = "chunks"
  /\ candidate.over
  /\ chunk_index' = chunk_index + 1
  /\ printed' = Append(printed, [kind |-> "overflow", chunk |-> chunk_index + 1,
                                 file |-> filename])
  /\ Break
  /\ UNCHANGED <<text, cleaned, recleaned, stage, faults, input_directory, output_directory, index, runs, requests,
                 embedding_calls, accepted, uuids, pending>>

\* One pass of the inner loop on a chunk within the ceiling, the Embedding
\* Service answering: the chunk is embedded, titled and written.
StageChunk ==
  /\ pc = "chunks"
  /\ ~candidate.over
  /\ chunk_index' = chunk_index + 1
  /\ printed' = Append(printed, [kind |-> "tokens", chunk |-> chunk_index + 1,
                                 file |-> filename])
  /\ accepted' = accepted + 1
  /\ requests' = requests \cup {chunk_content}
  /\ embedding_calls' = embedding_calls + 1
  /\ uuids' = uuids + 1
  /\ LET name == chunk_file_name_of(chunk_index + 1, page_title_of(filename))
         data == chunk_data_of(uuids + 1, page_title_of(filename),
                               candidate.chunk_title, chunk_content,
                               embedding_calls + 1)
     IN  output_directory' =
           [n \in DOMAIN output_directory \cup {name} |->
              IF n = name THEN data ELSE output_directory[n]]
  /\ NextChunk
  /\ UNCHANGED <<text, cleaned, recleaned, stage, faults, input_directory, index, runs, pending>>

\* The same pass, the Embedding Service failing: openai raises, the cell ends.
EmbeddingRaises ==
  /\ pc = "chunks"
  /\ ~candidate.over
  /\ chunk_index' = chunk_index + 1
  /\ printed' = Append(printed, [kind |-> "tokens", chunk |-> chunk_index + 1,
                                 file |-> filename])
  /\ accepted' = accepted + 1
  /\ requests' = requests \cup {chunk_content}
  /\ embedding_calls' = embedding_calls + 1
  /\ faults < MaxFaults
  /\ faults' = faults + 1
  /\ pc' = "idle"
  /\ runs' = Ended("APIError")
  /\ UNCHANGED <<text, cleaned, recleaned, stage, input_directory,
                 output_directory, index, file_pos, chunk_pos, uuids, pending>>

\* The listing is exhausted: the cell ends normally.
FinishChunking ==
  /\ pc = "files"
  /\ file_pos > Len(input_directory)
  /\ pc' = "idle"
  /\ runs' = Ended("done")
  /\ UNCHANGED <<text, cleaned, recleaned, stage, faults, input_directory, output_directory, index, file_pos, chunk_pos,
                 chunk_index, printed, requests, embedding_calls, accepted,
                 uuids, pending>>

----------------------------------------------------------------------------
(* The cell "Upload chunks/documents to Azure AI Search"                   *)

\* The cell starts: os.listdir(output_directory) is taken once.
BeginUpload ==
  /\ pc = "idle"
  /\ pc' = "upload"
  /\ runs' = Append(runs, [cell |-> "upload", outcome |-> "running"])
  /\ pending' = DOMAIN output_directory
  /\ UNCHANGED <<text, cleaned, recleaned, stage, faults, input_directory, output_directory, index, file_pos, chunk_pos,
                 chunk_index, printed, requests, embedding_calls, accepted, uuids>>

\* The cell is run, in any order with the chunking cell.
StartUpload == Len(runs) < MaxRuns /\ BeginUpload

\* One pass of the upload loop, in whatever order os.listdir gave: the file
\* is loaded and, when its name ends in .json, uploaded.
UploadFile ==
  /\ pc = "upload"
  /\ \E name \in pending :
       /\ pending' = pending \ {name}
       /\ index' = IF IsJson(name)
                   THEN upload_documents(index, output_directory[name])
                   ELSE index
  /\ UNCHANGED <<text, cleaned, recleaned, stage, faults, input_directory, output_directory, pc, runs, file_pos,
                 chunk_pos, chunk_index, printed, requests, embedding_calls,
                 accepted, uuids>>

\* The same pass, the Index Store failing: upload_documents raises.
UploadRaises ==
  /\ pc = "upload"
  /\ pending # {}
  /\ faults < MaxFaults
  /\ faults' = faults + 1
  /\ pc' = "idle"
  /\ pending' = {}
  /\ runs' = Ended("HttpResponseError")
  /\ UNCHANGED <<text, cleaned, recleaned, stage, input_directory,
                 output_directory, index, file_pos, chunk_pos, chunk_index,
                 printed, requests, embedding_calls, accepted, uuids>>

\* Every listed file was visited: the cell ends normally.
FinishUpload ==
  /\ pc = "upload"
  /\ pending = {}
  /\ pc' = "idle"
  /\ runs' = Ended("done")
  /\ UNCHANGED <<text, cleaned, recleaned, stage, faults, input_directory, output_directory, index, file_pos, chunk_pos,
                 chunk_index, printed, requests, embedding_calls, accepted,
                 uuids, pending>>

Next ==
  \/ StartChunking
  \/ SkipFile
  \/ ExtractRaises
  \/ IterateNone
  \/ OpenFile
  \/ Overflow
  \/ StageChunk
  \/ EmbeddingRaises
  \/ FinishChunking
  \/ StartUpload
  \/ UploadFile
  \/ UploadRaises
  \/ FinishUpload

Spec == Init /\ [][Next]_vars

----------------------------------------------------------------------------
(* The notebook run from top to bottom, again and again: the chunking cell, *)
(* then the upload cell, on the same files.                                 *)

\* The most times the two cells are run one after the other.
MaxRounds == 2

\* A round begins: the chunking cell is run first, and again once the round
\* before is over, which is when its upload cell has run or its chunking cell
\* has raised (an exception stops the cells below from running).
RerunChunking ==
  /\ Cardinality({ i \in DOMAIN runs : runs[i].cell = "chunks" }) < MaxRounds
  /\ IF runs = <<>> THEN TRUE
     ELSE runs[Len(runs)] # [cell |-> "chunks", outcome |-> "done"]
  /\ BeginChunking

\* The upload cell is run once the chunking cell above it has run to its end.
RerunUpload ==
  /\ IF runs = <<>> THEN FALSE
     ELSE runs[Len(runs)] = [cell |-> "chunks", outcome |-> "done"]
  /\ BeginUpload

RerunNext ==
  \/ RerunChunking
  \/ SkipFile
  \/ ExtractRaises
  \/ IterateNone
  \/ OpenFile
  \/ Overflow
  \/ StageChunk
  \/ EmbeddingRaises
  \/ FinishChunking
  \/ RerunUpload
  \/ UploadFile
  \/ UploadRaises
  \/ FinishUpload

RerunSpec == Init /\ [][RerunNext]_vars

----------------------------------------------------------------------------
(* clean_markdown_content on its own: applied once, then to its own result *)

\* The longest text tried in full (every text over Alphabet up to it).
MaxLen == 4

Alphabet == {"a", "*", "\n", "[", "]", "(", ")", "!"}

Words == { <<"a">>, <<"b">>, <<"a", "b">> }

Image(alt, url) == <<"!", "[">> \o alt \o <<"]", "(">> \o url \o <<")">>
Link(label, url) == <<"[">> \o label \o <<"]", "(">> \o url \o <<")">>
Bold(x, y, z) == x \o <<"*", "*">> \o y \o <<"*", "*">> \o z

Texts ==
  UNION { [1..n -> Alphabet] : n \in 0..MaxLen }
    \cup { Image(alt, url) : alt \in Words \cup {<<>>}, url \in Words }
    \cup { Link(label, url) : label \in Words, url \in Words }
    \cup { Link(Link(label, url), <<"c">>) : label \in Words, url \in Words }
    \cup { Bold(x, y, z) : x \in Words, y \in Words, z \in Words }

CleanInit ==
  /\ text \in Texts
  /\ cleaned = <<>>
  /\ recleaned = <<>>
  /\ stage = "raw"
  /\ input_directory = <<>>
  /\ output_directory = <<>>
  /\ index = <<>>
  /\ pc = "idle"
  /\ runs = <<>>
  /\ file_pos = 0
  /\ chunk_pos = 0
  /\ chunk_index = 0
  /\ printed = <<>>
  /\ requests = {}
  /\ embedding_calls = 0
  /\ accepted = 0
  /\ uuids = 0
  /\ faults = 0
  /\ pending = {}

notebook_vars ==
  <<input_directory, output_directory, index, pc, runs, file_pos, chunk_pos,
    chunk_index, printed, requests, embedding_calls, accepted, uuids, faults,
    pending>>

Clean ==
  /\ stage = "raw"
  /\ cleaned' = clean_markdown_content(text)
  /\ stage' = "cleaned"
  /\ UNCHANGED <<text, recleaned, notebook_vars>>

CleanAgain ==
  /\ stage = "cleaned"
  /\ recleaned' = clean_markdown_content(cleaned)
  /\ stage' = "recleaned"
  /\ UNCHANGED <<text, cleaned, notebook_vars>>

CleanNext == Clean \/ CleanAgain

CleanSpec == CleanInit /\ [][CleanNext]_vars

----------------------------------------------------------------------------
(* Properties of the notebook run (Spec)                                   *)

LastRun == runs[Len(runs)]

UploadsDone ==
  { i \in DOMAIN runs : runs[i] = [cell |-> "upload", outcome |-> "done"] }

\* The name ends in none of .pdf, .docx, .csv, .xlsx.
UnsupportedName(name) == \A t \in suported_file_types : ~EndsWith(name, t)

\* C1: every chunk staged in ./data/chunks/ or held by the index, and every
\* text sent to the Embedding Service, is a whole cleaned paragraph (nothing
\* is cut to fit) whose count under the chunker's num_tokens_from_string is
\* at most MAX_INPUT_TOKENS.
C1_PersistedWithinCeiling ==
  LET within(content) ==
        content \in Contents /\ Tokens[content] <= MAX_INPUT_TOKENS
  IN  /\ \A name \in DOMAIN output_directory :
           within(output_directory[name].chunk_content)
      /\ \A entry \in DOMAIN index : within(entry.chunk_content)
      /\ \A content \in requests : within(content)

\* A chunking run met a paragraph over the ceiling, chunks are staged and
\* indexed, and two upload runs have completed.
C1_Witness ==
  /\ \E k \in DOMAIN printed : printed[k].kind = "overflow"
  /\ DOMAIN output_directory # {}
  /\ DOMAIN index # {}
  /\ Cardinality(UploadsDone) >= 2

\* C2: no failure of a document or of an embedding call ends the chunking
\* run: every chunking run is still running or reached the end of the
\* listing.
C2_NoFailureEndsTheRun ==
  \A i \in DOMAIN runs :
    runs[i].cell = "chunks" => runs[i].outcome \in {"running", "done"}

\* C3: every text sent to the Embedding Service has at most MAX_INPUT_TOKENS
\* tokens under cl100k_base.
C3_RequestsWithinCl100kCeiling ==
  \A content \in requests : TokensCl100k[content] <= MAX_INPUT_TOKENS

\* C4, in every state of a chunking run: a file has at most one overflow line,
\* which names the file and the chunk index; no chunk file exists for that
\* index; no later line of the output is about that file (none of its
\* remaining paragraphs is embedded or staged); the chunks of that file
\* accepted before it are staged.
C4_AfterOverflow ==
  \A i \in DOMAIN printed :
    printed[i].kind = "overflow" =>
      LET file == printed[i].file
          title == page_title_of(file)
      IN  /\ \E p \in DOMAIN input_directory : input_directory[p] = file
          /\ printed[i].chunk = i
          /\ \A k \in DOMAIN printed : k > i => printed[k].file # file
          /\ chunk_file_name_of(printed[i].chunk, title)
               \notin DOMAIN output_directory
          /\ \A k \in 1..(i - 1) :
               printed[k].file = file =>
                 /\ printed[k].kind = "tokens"
                 /\ chunk_file_name_of(printed[k].chunk, title)
                      \in DOMAIN output_directory
                 /\ output_directory[chunk_file_name_of(printed[k].chunk, title)]
                      .page_title = title

\* C4, the step taken on a paragraph over the ceiling: one overflow line is
\* printed, nothing is embedded or written, and the run goes on with the next
\* file.
C4_OverflowStep ==
  (pc = "chunks" /\ Tokens[chunk_content] > MAX_INPUT_TOKENS) =>
    /\ printed' = Append(printed, [kind |-> "overflow",
                                   chunk |-> chunk_index + 1, file |-> filename])
    /\ output_directory' = output_directory
    /\ requests' = requests
    /\ embedding_calls' = embedding_calls
    /\ runs' = runs
    /\ pc' = "files"
    /\ file_pos' = file_pos + 1

\* C4: first-overflow-aborts-document.
C4_FirstOverflowAbortsDocument ==
  [](C4_AfterOverflow) /\ [][C4_OverflowStep]_vars

\* An earlier paragraph of a file was accepted, a later one overflowed, and a
\* paragraph of the next file was accepted after that.
C4_Witness ==
  \E i \in DOMAIN printed :
    /\ printed[i].kind = "overflow"
    /\ \E k \in 1..(i - 1) : printed[k].file = printed[i].file
    /\ \E k \in DOMAIN printed : k > i /\ printed[k].kind = "tokens"

\* C5 as stated: each unsupported file the loop has passed is named by a line
\* of the run's output (an UnsupportedFormat diagnostic).
C5_SkippedWithDiagnostic ==
  \A p \in DOMAIN input_directory :
    (p < file_pos /\ UnsupportedName(input_directory[p])) =>
      \E k \in DOMAIN printed : printed[k].file = input_directory[p]

\* C5 as amended, in every state: no line of the output names an unsupported
\* file and no staged chunk carries its title.
C5_NoTraceOfUnsupported ==
  \A p \in DOMAIN input_directory :
    UnsupportedName(input_directory[p]) =>
      /\ \A k \in DOMAIN printed : printed[k].file # input_directory[p]
      /\ \A name \in DOMAIN output_directory :
           output_directory[name].page_title # page_title_of(input_directory[p])

\* C5 as amended, the step taken on an unsupported file: nothing is printed,
\* embedded or written, and the loop goes on with the next listed file.
C5_SkipStep ==
  (pc = "files" /\ file_pos <= Len(input_directory) /\ UnsupportedName(filename)) =>
    /\ printed' = printed
    /\ requests' = requests
    /\ embedding_calls' = embedding_calls
    /\ output_directory' = output_directory
    /\ runs' = runs
    /\ pc' = "files"
    /\ file_pos' = file_pos + 1

\* C5 as amended: an unsupported file is skipped silently and the skip hands
\* the loop to the next listed file.
C5_SilentSkip ==
  [](C5_NoTraceOfUnsupported) /\ [][C5_SkipStep]_vars

\* An unsupported file was skipped and a chunk of a later file was staged.
C5_Witness ==
  \E p \in DOMAIN input_directory :
    /\ UnsupportedName(input_directory[p])
    /\ \E k \in DOMAIN printed :
         \E q \in DOMAIN input_directory :
           q > p /\ printed[k].file = input_directory[q]
    /\ DOMAIN output_directory # {}

\* The title C8 describes, for each paragraph of each file: the text before
\* the first '.\n' of the paragraph as it is before cleaning, cut to 200
\* characters and '...' when longer.
TitleBeforeCleaning ==
  [name \in FileNames |->
     [i \in DOMAIN Extracted[name].paragraphs |->
        LET T == Split(Strip(Extracted[name].paragraphs[i]), <<".", "\n">>)[1]
        IN  IF Len(T) > TITLE_LIMIT
            THEN SubSeq(T, 1, TITLE_LIMIT) \o <<".", ".", ".">>
            ELSE T]]

\* C8: the chunk_title of every staged chunk is the title derived from the
\* paragraph before cleaning.
C8_TitleFromFirstParagraph ==
  \A name \in DOMAIN output_directory :
    \A f \in FileNames :
      \A i \in DOMAIN Candidate[f] :
        ( /\ output_directory[name].page_title = page_title_of(f)
          /\ output_directory[name].chunk_content = Candidate[f][i].chunk_content )
        => output_directory[name].chunk_title = TitleBeforeCleaning[f][i]

\* C9, after any completed upload run: each staged chunk file has exactly one
\* entry in the index, the entry with its id, and that entry is the staged
\* chunk.
C9_OneEntryPerStagedFile ==
  (Len(runs) > 0 /\ LastRun = [cell |-> "upload", outcome |-> "done"]) =>
    \A name \in DOMAIN output_directory :
      LET document == output_directory[name]
      IN  /\ { e \in DOMAIN index : e.id = document.id } = {document}
          /\ index[document] = 1

\* C9, every step of the upload loop: no call of the Embedding Service.
C9_UploadStep ==
  pc = "upload" => (embedding_calls' = embedding_calls /\ requests' = requests)

\* C9: replaying the upload is idempotent and embeds nothing.
C9_UploadReplayIdempotent ==
  [](C9_OneEntryPerStagedFile) /\ [][C9_UploadStep]_vars

\* Staged chunks exist and the last two runs are completed upload runs.
C9_Witness ==
  /\ DOMAIN output_directory # {}
  /\ Len(runs) >= 3
  /\ LastRun = [cell |-> "upload", outcome |-> "done"]
  /\ runs[Len(runs) - 1] = [cell |-> "upload", outcome |-> "done"]

\* One chunking run, then one completed upload run, no service call failing.
OneIngestionOneUpload ==
  /\ Len(runs) = 2
  /\ runs[1].cell = "chunks"
  /\ runs[2] = [cell |-> "upload", outcome |-> "done"]
  /\ faults = 0

\* The listed files the chunking run went through that have one paragraph,
\* within the ceiling.
SingleShortSection ==
  { p \in DOMAIN input_directory :
      /\ p < file_pos
      /\ ~UnsupportedName(input_directory[p])
      /\ Len(Extracted[input_directory[p]].paragraphs) = 1
      /\ Tokens[Candidate[input_directory[p]][1].chunk_content] <= MAX_INPUT_TOKENS }

\* Embedding calls, staged files and index entries all number the accepted
\* candidates.
OnceEach ==
  /\ embedding_calls = accepted
  /\ Cardinality(DOMAIN output_directory) = accepted
  /\ Cardinality(DOMAIN index) = accepted
  /\ \A e \in DOMAIN index : index[e] = 1

\* The one chunk staged for the file at p of the listing has `content`.
OneChunkWith(p, content) ==
  LET staged == { name \in DOMAIN output_directory :
                    output_directory[name].page_title
                      = page_title_of(input_directory[p]) }
  IN  /\ Cardinality(staged) = 1
      /\ \A name \in staged : output_directory[name].chunk_content = content

IngestedAndUploadedTwice ==
  /\ pc = "idle"
  /\ runs = << [cell |-> "chunks", outcome |-> "done"],
              [cell |-> "upload", outcome |-> "done"],
              [cell |-> "chunks", outcome |-> "done"],
              [cell |-> "upload", outcome |-> "done"] >>

\* The index entries that are the chunk `document` but for id and vector.
Twins(document) ==
  { e \in DOMAIN index :
      /\ e.page_title = document.page_title
      /\ e.chunk_title = document.chunk_title
      /\ e.chunk_content = document.chunk_content }

\* C11: after ingestion and upload were run twice on the same files, the
\* index holds two entries for every accepted chunk: the one staged by the
\* second run and one more that has the same page_title, chunk_title and
\* chunk_content under another id; nothing was updated in place, so the
\* index has as many entries as candidates were accepted in the two runs.
C11_ReingestionDuplicates ==
  IngestedAndUploadedTwice =>
    /\ \A name \in DOMAIN output_directory :
         LET twins == Twins(output_directory[name])
         IN  /\ output_directory[name] \in twins
             /\ Cardinality(twins) = 2
             /\ Cardinality({ e.id : e \in twins }) = 2
    /\ \A e \in DOMAIN index : index[e] = 1
    /\ Cardinality(DOMAIN index) = 2 * Cardinality(DOMAIN output_directory)
    /\ Cardinality(DOMAIN index) = accepted
    /\ Cardinality({ e.id : e \in DOMAIN index }) = accepted

\* Both rounds ran to their end and chunks of two files were accepted.
C11_Witness ==
  /\ IngestedAndUploadedTwice
  /\ Cardinality({ e.page_title : e \in DOMAIN index }) >= 2
  /\ Cardinality(DOMAIN index) >= 4

\* The latest run of the chunking cell.
LastChunking ==
  runs[Greatest({ i \in DOMAIN runs : runs[i].cell = "chunks" })]

\* The lines of `printed` whose chunk was accepted and written: every
\* "tokens" line, but the last one of a run the Embedding Service ended.
Written ==
  IF printed = <<>> THEN {}
  ELSE { i \in DOMAIN printed : printed[i].kind = "tokens" }
         \ (IF LastChunking.outcome = "APIError" THEN {Len(printed)} ELSE {})

\* The staging file name of the chunk of line i, and the paragraph it is of
\* its file (the lines of one file follow one another).
StagedAs(i) ==
  chunk_file_name_of(printed[i].chunk, page_title_of(printed[i].file))

ParagraphOf(i) ==
  i - Least({ k \in DOMAIN printed : printed[k].file = printed[i].file }) + 1

\* C12: within one run of the chunking cell the chunk_index values grow
\* strictly from one candidate to the next, across files too; the accepted
\* chunks have staging file names that differ from one another, and each
\* of these files still holds the chunk it was written for.
C12_OneStagingFilePerAcceptedChunk ==
  printed # <<>> =>
    /\ \A i, j \in DOMAIN printed :
         i < j => printed[i].chunk < printed[j].chunk
    /\ printed[Len(printed)].chunk = chunk_index
    /\ \A i, j \in Written : i # j => StagedAs(i) # StagedAs(j)
    /\ \A i \in Written :
         /\ StagedAs(i) \in DOMAIN output_directory
         /\ output_directory[StagedAs(i)].page_title
              = page_title_of(printed[i].file)
         /\ output_directory[StagedAs(i)].chunk_content
              = Candidate[printed[i].file][ParagraphOf(i)].chunk_content

\* A run has written chunks of two files whose page titles give the same
\* name once ? : ' | / \ are taken out, and has ended.
C12_Witness ==
  /\ pc = "idle"
  /\ \E i, j \in Written :
       /\ printed[i].file # printed[j].file
       /\ chunk_file_name_of(0, page_title_of(printed[i].file))
            = chunk_file_name_of(0, page_title_of(printed[j].file))

----------------------------------------------------------------------------
(* Properties of clean_markdown_content (CleanSpec)                        *)

\* C6: clean_markdown_content is idempotent: cleaning its result again
\* changes nothing.
C6_Idempotent == stage = "recleaned" => recleaned = cleaned

\* C7: an image is removed whole, a link is replaced by its label, and
\* a**b**c becomes abc.
C7_ImagesLinksBold ==
  stage # "raw" =>
    /\ \A alt \in Words \cup {<<>>}, url \in Words :
         text = Image(alt, url) => cleaned = <<>>
    /\ \A label \in Words, url \in Words :
         text = Link(label, url) => cleaned = label
    /\ \A x \in Words, y \in Words, z \in Words :
         text = Bold(x, y, z) => cleaned = x \o y \o z

====
